---- MODULE Spec2Model ----
(***************************************************************************)
(* A model of event.go: the Event record, its canonical serialization,    *)
(* the derived identifier, Sign and CheckSignature.                        *)
(*                                                                         *)
(* Strings are sequences of one-character strings, byte slices are         *)
(* sequences of 0..255.  SHA-256 and the BIP-340 signature are idealised:  *)
(* the hash is collision free on the serializations of the modelled        *)
(* events, and a signature verifies exactly for the key and digest it was  *)
(* made with.                                                              *)
(***************************************************************************)
EXTENDS Integers, Sequences, FiniteSets, TLC

\* ---------------------------------------------------------------- bounds
MaxSec == 1
MaxSets == 1

\* ------------------------------------------------------ program constants
KindSetMetadata == 0
KindTextNote == 1
SigSize == 64
HashSize == 32
KeySize == 32

\* ------------------------------------------------------------- encoding
\* (a function over 1..n is made a tuple by \o <<>>, a function table an
\* explicit one by @@ <<>>, so that each is computed once)

\* a zeroed byte array of length n
Zeros(n) == [i \in 1..n |-> 0] \o <<>>

HexLower == <<"0","1","2","3","4","5","6","7","8","9","a","b","c","d","e","f">>

\* hex.EncodeToString: two lower-case digits per byte, high nibble first
EncodeToString(bs) ==
  [i \in 1..(2 * Len(bs)) |->
     LET b == bs[(i + 1) \div 2]
     IN  IF i % 2 = 1 THEN HexLower[(b \div 16) + 1] ELSE HexLower[(b % 16) + 1]] \o <<>>

\* value of each hex digit, in either case
HexValue ==
  [c \in {HexLower[i] : i \in 1..16} |-> CHOOSE i \in 0..15 : HexLower[i + 1] = c]
  @@ ("A" :> 10) @@ ("B" :> 11) @@ ("C" :> 12) @@ ("D" :> 13) @@ ("E" :> 14) @@ ("F" :> 15)

\* hex.DecodeString: an error for an odd length or a character that is not
\* a hex digit, the bytes otherwise
DecodeString(s) ==
  IF Len(s) % 2 = 1 \/ (\E i \in 1..Len(s) : s[i] \notin DOMAIN HexValue)
  THEN [err |-> TRUE, bytes |-> <<>>]
  ELSE [err |-> FALSE,
        bytes |-> [i \in 1..(Len(s) \div 2) |->
                     16 * HexValue[s[2 * i - 1]] + HexValue[s[2 * i]]]]

RECURSIVE Digits(_)
Digits(n) ==
  IF n < 10 THEN <<HexLower[n + 1]>>
  ELSE Digits(n \div 10) \o <<HexLower[(n % 10) + 1]>>

\* fastjson Arena.NewNumberInt + MarshalTo: the decimal literal of n
NewNumberInt(n) == IF n < 0 THEN <<"-">> \o Digits(0 - n) ELSE Digits(n)

\* fastjson hasSpecialChars: a quote, a backslash or a control character
hasSpecialChars(s) == \E i \in 1..Len(s) : s[i] \in {"\"", "\\", "\n"}

\* strconv.AppendQuote on one character
QuoteChar(c) ==
  CASE c = "\"" -> <<"\\", "\"">>
    [] c = "\\" -> <<"\\", "\\">>
    [] c = "\n" -> <<"\\", "n">>
    [] OTHER -> <<c>>

RECURSIVE QuoteBody(_)
QuoteBody(s) == IF s = <<>> THEN <<>> ELSE QuoteChar(Head(s)) \o QuoteBody(Tail(s))

\* fastjson Arena.NewString + MarshalTo: the string between quotes, copied
\* as is when it has no special character and escaped otherwise
NewString(s) ==
  IF hasSpecialChars(s) THEN <<"\"">> \o QuoteBody(s) \o <<"\"">>
  ELSE <<"\"">> \o s \o <<"\"">>

RECURSIVE JoinItems(_)
JoinItems(items) ==
  IF items = <<>> THEN <<>>
  ELSE IF Len(items) = 1 THEN items[1]
  ELSE items[1] \o <<",">> \o JoinItems(Tail(items))

\* fastjson Arena.NewArray + SetArrayItem + MarshalTo: items between
\* brackets, separated by commas, in index order
MarshalArray(items) == <<"[">> \o JoinItems(items) \o <<"]">>

\* tags as an array of arrays of strings, order kept at both levels
tagsToFastjsonArray(tags) ==
  MarshalArray([i \in 1..Len(tags) |->
     MarshalArray([j \in 1..Len(tags[i]) |-> NewString(tags[i][j])])])

\* time.Time.Unix: whole seconds, the sub-second part dropped
Unix(t) == t.sec

\* Serialize with the kind item overwritten by the tags item
SerializeNoKind(e) ==
  MarshalArray(<< NewNumberInt(0),
                  NewString(e.PubKey),
                  NewNumberInt(Unix(e.CreatedAt)),
                  tagsToFastjsonArray(e.Tags),
                  tagsToFastjsonArray(e.Tags),
                  NewString(e.Content) >>)

\* Event.Serialize
Serialize(e) ==
  MarshalArray(<< NewNumberInt(0),
                  NewString(e.PubKey),
                  NewNumberInt(Unix(e.CreatedAt)),
                  NewNumberInt(e.Kind),
                  tagsToFastjsonArray(e.Tags),
                  NewString(e.Content) >>)


\* ------------------------------------------------------------------ SHA-256
\* the values the model gives to the signed fields
Secs == 0..MaxSec
Nsecs == {0, 500000000}
Times == [sec : Secs, nsec : Nsecs]
Kinds == {KindSetMetadata, KindTextNote}
StrA == <<"a">>
StrB == <<"b">>
StrQ == <<"a", "\"", ",", "\"", "b">>
StrE == <<"\\", "\"">>
Tags0 == << <<StrA, StrB>>, <<StrB>> >>
TagSets ==
  { <<>>,
    Tags0,
    << <<StrB, StrA>>, <<StrB>> >>,
    << <<StrB>>, <<StrA, StrB>> >> }
Contents == { <<>>, StrA }
\* further tags and contents, for the serializer alone
SerTagSets ==
  TagSets \cup { << <<StrA, StrB>> >>, << <<StrQ>> >>, << <<StrA>>, <<StrB>> >>,
                 << <<>> >>, << <<>>, <<>> >> }
SerContents == Contents \cup { StrQ, StrE, <<"\"">>, <<"\\">>, <<"\n">>, <<"n">> }

\* a 32-byte big-endian number below 65536
Bytes32(n) == Zeros(HashSize - 2) \o <<n \div 256, n % 256>>

\* secret scalars in the valid range of the curve
ValidScalars == {1, 2}
\* scalars a private key string may decode to: the valid ones and zero
Scalars == ValidScalars \cup {0}

\* x-only public key of a secret scalar
PubKeyOf(d) == Zeros(KeySize - 1) \o <<10 + d>>

\* a string that is not hex
NotHex == <<"z", "z">>
PubKeys == {EncodeToString(PubKeyOf(d)) : d \in ValidScalars} \cup {NotHex}
PrivateKeys == {EncodeToString(Bytes32(d)) : d \in Scalars} \cup {NotHex}

\* the empty string
NoStr == <<>>

\* the signed fields of the events of the state machine, and of the serializer
SignedFields == [PubKey : PubKeys, CreatedAt : Times, Kind : Kinds,
                 Tags : TagSets, Content : Contents]
SerFields == [PubKey : PubKeys, CreatedAt : Times, Kind : Kinds,
              Tags : SerTagSets, Content : SerContents]
\* the event a run starts from
NewFields == [PubKey : {EncodeToString(PubKeyOf(1))},
              CreatedAt : {[sec |-> 0, nsec |-> 0]}, Kind : {KindSetMetadata},
              Tags : {Tags0}, Content : {<<>>}]

\* the Event with signed fields f and no identifier or signature yet
Unsigned(f) ==
  [ID |-> NoStr, PubKey |-> f.PubKey, CreatedAt |-> f.CreatedAt, Kind |-> f.Kind,
   Tags |-> f.Tags, Content |-> f.Content, Sig |-> NoStr]

\* the elements of a set in some fixed order, and the place of one of them
RECURSIVE SetToSeq(_)
SetToSeq(S) ==
  IF S = {} THEN <<>>
  ELSE LET x == CHOOSE y \in S : TRUE IN <<x>> \o SetToSeq(S \ {x})

IndexIn(seq, x) == CHOOSE i \in 1..Len(seq) : seq[i] = x

PubKeySeq == SetToSeq(PubKeys)
TimeSeq == SetToSeq(Times)
KindSeq == SetToSeq(Kinds)
TagsSeq == SetToSeq(TagSets)
ContentSeq == SetToSeq(Contents)

\* an injective code of the signed fields, as 32 bytes
Code(f) ==
  Zeros(HashSize - 5) \o
  << IndexIn(PubKeySeq, f.PubKey), IndexIn(TimeSeq, f.CreatedAt),
     IndexIn(KindSeq, f.Kind), IndexIn(TagsSeq, f.Tags),
     IndexIn(ContentSeq, f.Content) >>

\* every byte string the modelled events serialize to, with a digest
Digests == {<<Serialize(Unsigned(f)), Code(f)>> : f \in SignedFields}

\* an idealised SHA-256: a function of the bytes alone that gives distinct
\* preimages distinct 32-byte digests
Digest ==
  [b \in {p[1] : p \in Digests} |-> (CHOOSE p \in Digests : p[1] = b)[2]] @@ <<>>

\* sha256.Sum256
Sum256(b) == Digest[b]

\* Event.GetID
GetID(e) == EncodeToString(Sum256(Serialize(e)))

\* ------------------------------------------------------------------ BIP-340
\* the big-endian number a byte string denotes
RECURSIVE BytesToInt(_)
BytesToInt(bs) ==
  IF bs = <<>> THEN 0
  ELSE 256 * BytesToInt(SubSeq(bs, 1, Len(bs) - 1)) + bs[Len(bs)]

\* bip340.ParsePublicKey: 32 bytes of hex that are the x of a curve point
ParsePublicKey(s) ==
  LET d == DecodeString(s)
  IN  IF d.err \/ Len(d.bytes) # KeySize
         \/ ~(\E k \in ValidScalars : PubKeyOf(k) = d.bytes)
      THEN [err |-> TRUE, key |-> <<>>]
      ELSE [err |-> FALSE, key |-> d.bytes]

\* bip340.ParsePrivateKey: the scalar a hex string denotes
ParsePrivateKey(s) ==
  LET d == DecodeString(s)
  IN  IF d.err THEN [err |-> TRUE, key |-> 0]
      ELSE [err |-> FALSE, key |-> BytesToInt(d.bytes)]

\* bip340.Sign: refuses a scalar outside the valid range; the signature is
\* 64 bytes that bind the signer's public key, the auxiliary randomness and
\* the digest
bip340Sign(s, h, aux) ==
  IF s \notin ValidScalars THEN [err |-> TRUE, sig |-> Zeros(SigSize)]
  ELSE [err |-> FALSE,
        sig |-> Zeros(KeySize - 2) \o <<PubKeyOf(s)[KeySize], aux>> \o h]

\* the verification equation of the idealised scheme
VerifyEq(pubkey, hash, sig) ==
  /\ SubSeq(sig, 1, KeySize - 2) = Zeros(KeySize - 2)
  /\ sig[KeySize - 1] = pubkey[KeySize]
  /\ SubSeq(sig, KeySize + 1, SigSize) = hash

\* bip340.Verify: (true, nil) when the equation holds; a failed verification
\* is reported as (false, nil) or as (false, error) according to failErr
bip340Verify(pubkey, hash, sig, failErr) ==
  IF VerifyEq(pubkey, hash, sig) THEN [ok |-> TRUE, err |-> "nil"]
  ELSE [ok |-> FALSE, err |-> IF failErr THEN "verify" ELSE "nil"]

\* ------------------------------------------------------------------ Event
\* CheckSignature without the test of the decoded length: a short signature
\* is copied into the zeroed 64-byte array and verified
CheckSignatureNoLen(e, failErr) ==
  LET pubkey == ParsePublicKey(e.PubKey)
      s == DecodeString(e.Sig)
  IN  IF pubkey.err THEN [evt |-> e, ok |-> FALSE, err |-> "pubkey"]
      ELSE IF s.err THEN [evt |-> e, ok |-> FALSE, err |-> "sighex"]
      ELSE LET hash == Sum256(Serialize(e))
               sig == [i \in 1..SigSize |-> IF i <= Len(s.bytes) THEN s.bytes[i] ELSE 0]
               r == bip340Verify(pubkey.key, hash, sig, failErr)
           IN  [evt |-> e, ok |-> r.ok, err |-> r.err]

\* CheckSignature verifying the digest held in the ID field instead of the
\* digest of the serialization
CheckSignatureStoredID(e, failErr) ==
  LET pubkey == ParsePublicKey(e.PubKey)
      s == DecodeString(e.Sig)
      id == DecodeString(e.ID)
  IN  IF pubkey.err THEN [evt |-> e, ok |-> FALSE, err |-> "pubkey"]
      ELSE IF s.err THEN [evt |-> e, ok |-> FALSE, err |-> "sighex"]
      ELSE IF Len(s.bytes) # SigSize THEN [evt |-> e, ok |-> FALSE, err |-> "siglen"]
      ELSE LET r == bip340Verify(pubkey.key, id.bytes, s.bytes, failErr)
           IN  [evt |-> e, ok |-> r.ok, err |-> r.err]

\* CheckSignature on a pointer receiver that stores the digest it computed
\* in the ID field
CheckSignatureSetsID(e, failErr) ==
  LET pubkey == ParsePublicKey(e.PubKey)
      s == DecodeString(e.Sig)
  IN  IF pubkey.err THEN [evt |-> e, ok |-> FALSE, err |-> "pubkey"]
      ELSE IF s.err THEN [evt |-> e, ok |-> FALSE, err |-> "sighex"]
      ELSE IF Len(s.bytes) # SigSize THEN [evt |-> e, ok |-> FALSE, err |-> "siglen"]
      ELSE LET hash == Sum256(Serialize(e))
               r == bip340Verify(pubkey.key, hash, s.bytes, failErr)
           IN  [evt |-> [e EXCEPT !.ID = EncodeToString(hash)],
                ok |-> r.ok, err |-> r.err]

\* Event.CheckSignature: the event after the call and the pair returned
CheckSignature(e, failErr) ==
  LET pubkey == ParsePublicKey(e.PubKey)
      s == DecodeString(e.Sig)
  IN  IF pubkey.err THEN [evt |-> e, ok |-> FALSE, err |-> "pubkey"]
      ELSE IF s.err THEN [evt |-> e, ok |-> FALSE, err |-> "sighex"]
      ELSE IF Len(s.bytes) # SigSize THEN [evt |-> e, ok |-> FALSE, err |-> "siglen"]
      ELSE LET hash == Sum256(Serialize(e))
               r == bip340Verify(pubkey.key, hash, s.bytes, failErr)
           IN  [evt |-> e, ok |-> r.ok, err |-> r.err]

\* rand.Read into a zeroed 32-byte buffer: the bytes read, or the buffer
\* left as it was when the read fails (the error is not looked at)
AuxOf(rnd) == IF rnd.ok THEN rnd.aux ELSE 0

\* Sign storing the identifier before the private key is parsed
SignEarlyID(e, privateKey, rnd) ==
  LET h == Sum256(Serialize(e))
      s == ParsePrivateKey(privateKey)
      e1 == [e EXCEPT !.ID = EncodeToString(h)]
  IN  IF s.err THEN [evt |-> e1, err |-> "privkey", digest |-> h, rand |-> "none"]
      ELSE LET r == bip340Sign(s.key, h, AuxOf(rnd))
               rd == IF rnd.ok THEN "ok" ELSE "failed"
           IN  IF r.err THEN [evt |-> e1, err |-> "sign", digest |-> h, rand |-> rd]
               ELSE [evt |-> [e1 EXCEPT !.Sig = EncodeToString(r.sig)],
                     err |-> "nil", digest |-> h, rand |-> rd]

\* Sign hex-encoding only the first half of the signature
SignHalfSig(e, privateKey, rnd) ==
  LET h == Sum256(Serialize(e))
      s == ParsePrivateKey(privateKey)
  IN  IF s.err THEN [evt |-> e, err |-> "privkey", digest |-> h, rand |-> "none"]
      ELSE LET r == bip340Sign(s.key, h, AuxOf(rnd))
               rd == IF rnd.ok THEN "ok" ELSE "failed"
           IN  IF r.err THEN [evt |-> e, err |-> "sign", digest |-> h, rand |-> rd]
               ELSE [evt |-> [e EXCEPT !.ID = EncodeToString(h),
                                       !.Sig = EncodeToString(SubSeq(r.sig, 1, KeySize))],
                     err |-> "nil", digest |-> h, rand |-> rd]

\* Event.Sign: the event after the call, the error returned, the digest
\* computed and whether the random source was read with success ("none"
\* when the call returned before reading it)
Sign(e, privateKey, rnd) ==
  LET h == Sum256(Serialize(e))
      s == ParsePrivateKey(privateKey)
  IN  IF s.err THEN [evt |-> e, err |-> "privkey", digest |-> h, rand |-> "none"]
      ELSE LET r == bip340Sign(s.key, h, AuxOf(rnd))
               rd == IF rnd.ok THEN "ok" ELSE "failed"
           IN  IF r.err THEN [evt |-> e, err |-> "sign", digest |-> h, rand |-> rd]
               ELSE [evt |-> [e EXCEPT !.ID = EncodeToString(h),
                                       !.Sig = EncodeToString(r.sig)],
                     err |-> "nil", digest |-> h, rand |-> rd]

\* ------------------------------------------------------------------ state
\* evt:      the Event
\* ret:      the last call on it and what the call returned
\* signed:   the event as the last successful Sign left it, with the key used
\* failMode: whether bip340.Verify reports a failed verification as an error
\*           (TRUE) or as a plain false (FALSE); fixed for a run
\* sets:     the number of fields the caller has stored since construction
VARIABLES evt, ret, signed, failMode, sets
vars == <<evt, ret, signed, failMode, sets>>

NoDigest == <<>>
NoRet == [op |-> "none", ok |-> FALSE, err |-> "nil", digest |-> NoDigest,
          rand |-> "none", val |-> NoStr]
NotSigned == [done |-> FALSE]

\* what rand.Read may do: fill the buffer, or fail and leave it zeroed
RandOutcomes == {[ok |-> TRUE, aux |-> 1], [ok |-> FALSE, aux |-> 0]}

\* values a caller may store in the two derived fields
IDValues == {NoStr, EncodeToString(Zeros(HashSize))}
SigValues == {NoStr, NotHex, EncodeToString(Zeros(SigSize - 1)),
              EncodeToString(Zeros(SigSize)), EncodeToString(Zeros(SigSize + 1))}

Init ==
  /\ evt \in {Unsigned(f) : f \in NewFields}
  /\ ret = NoRet
  /\ signed = NotSigned
  /\ failMode \in BOOLEAN
  /\ sets = 0

SignCall ==
  /\ \E privateKey \in PrivateKeys, rnd \in RandOutcomes :
       LET r == Sign(evt, privateKey, rnd)
       IN  /\ evt' = r.evt
           /\ ret' = [NoRet EXCEPT !.op = "Sign", !.err = r.err,
                                   !.digest = r.digest, !.rand = r.rand]
           /\ signed' = IF r.err = "nil"
                        THEN [done |-> TRUE, evt |-> r.evt, key |-> privateKey]
                        ELSE signed
  /\ UNCHANGED <<failMode, sets>>

CheckSignatureCall ==
  /\ LET r == CheckSignature(evt, failMode)
     IN  /\ evt' = r.evt
         /\ ret' = [NoRet EXCEPT !.op = "CheckSignature", !.ok = r.ok, !.err = r.err]
  /\ UNCHANGED <<signed, failMode, sets>>

GetIDCall ==
  /\ ret' = [NoRet EXCEPT !.op = "GetID", !.val = GetID(evt)]
  /\ UNCHANGED <<evt, signed, failMode, sets>>

Store(e) ==
  /\ sets < MaxSets
  /\ e # evt
  /\ evt' = e
  /\ ret' = NoRet
  /\ sets' = sets + 1
  /\ UNCHANGED <<signed, failMode>>

SetPubKey == \E v \in PubKeys : Store([evt EXCEPT !.PubKey = v])
SetCreatedAt == \E v \in Times : Store([evt EXCEPT !.CreatedAt = v])
SetKind == \E v \in Kinds : Store([evt EXCEPT !.Kind = v])
SetTags == \E v \in TagSets : Store([evt EXCEPT !.Tags = v])
SetContent == \E v \in Contents : Store([evt EXCEPT !.Content = v])
SetID == \E v \in IDValues : Store([evt EXCEPT !.ID = v])
SetSig == \E v \in SigValues : Store([evt EXCEPT !.Sig = v])

Next ==
  \/ SignCall
  \/ CheckSignatureCall
  \/ GetIDCall
  \/ SetPubKey
  \/ SetCreatedAt
  \/ SetKind
  \/ SetTags
  \/ SetContent
  \/ SetID
  \/ SetSig

Spec == Init /\ [][Next]_vars


\* ------------------------------------------------- the serializer on its own
\* Serialize applied to an event, the output kept in ret.val
SerializeCall ==
  /\ ret.op = "none"
  /\ ret' = [NoRet EXCEPT !.op = "Serialize", !.val = Serialize(evt)]
  /\ UNCHANGED <<evt, signed, failMode, sets>>

\* events of the serializer's domain, unsigned or with the derived fields set
InitSer ==
  /\ evt \in {Unsigned(f) : f \in SerFields}
            \cup {[Unsigned(f) EXCEPT !.ID = EncodeToString(Zeros(HashSize)),
                                      !.Sig = EncodeToString(Zeros(SigSize))]
                  : f \in SerFields}
  /\ ret = NoRet
  /\ signed = NotSigned
  /\ failMode = FALSE
  /\ sets = 0

NextSer == SerializeCall

SpecSer == InitSer /\ [][NextSer]_vars

\* every combination of signed fields with the bytes it serializes to
SerPairs == {<<f, Serialize(Unsigned(f))>> : f \in SerFields}

\* ------------------------------------------------------------------ claims
FieldsOf(e) ==
  [PubKey |-> e.PubKey, CreatedAt |-> e.CreatedAt, Kind |-> e.Kind,
   Tags |-> e.Tags, Content |-> e.Content]

\* the signed fields as the serializer reads them: createdAt by its second
WireOf(e) ==
  [PubKey |-> e.PubKey, CreatedAt |-> Unix(e.CreatedAt), Kind |-> e.Kind,
   Tags |-> e.Tags, Content |-> e.Content]

Valid == ret.ok /\ ret.err = "nil"

\* CheckSignature has just run on the event exactly as a successful Sign left it
CheckedAsSigned ==
  /\ ret.op = "CheckSignature"
  /\ signed.done
  /\ evt = signed.evt

\* the author key is the x-only public key of the private key last signed with
AuthorIsSigner ==
  /\ signed.done
  /\ LET pk == ParsePublicKey(signed.evt.PubKey)
         sk == ParsePrivateKey(signed.key)
     IN  ~pk.err /\ ~sk.err /\ pk.key = PubKeyOf(sk.key)

\* C1 as stated: for every valid private key and every event, whatever its
\* author key, a successful Sign followed by CheckSignature gives (true, nil)
C1_AnyAuthorRoundTrip == CheckedAsSigned => Valid

\* C1 amended: for every valid private key and every event whose author key is
\* the public key of that private key, a successful Sign followed by
\* CheckSignature gives (true, nil)
C1_RoundTrip == (CheckedAsSigned /\ AuthorIsSigner) => Valid

C1_Witness == CheckedAsSigned /\ AuthorIsSigner /\ Valid

\* C2: a Sign that returns an error leaves ID and Sig as they were; a Sign that
\* returns nil sets both, ID being the hex of the digest of the serialization,
\* which is the digest the stored signature was made over
C2_SignAllOrNothing ==
  [][ret'.op = "Sign" =>
       IF ret'.err # "nil"
       THEN evt'.ID = evt.ID /\ evt'.Sig = evt.Sig
       ELSE LET sig == DecodeString(evt'.Sig)
                id == DecodeString(evt'.ID)
            IN  /\ ret'.digest = Sum256(Serialize(evt))
                /\ evt'.ID = EncodeToString(ret'.digest)
                /\ ~id.err /\ id.bytes = ret'.digest
                /\ ~sig.err /\ Len(sig.bytes) = SigSize
                /\ SubSeq(sig.bytes, KeySize + 1, SigSize) = id.bytes]_vars

\* a failed re-sign of an event that was signed before and still carries the
\* identifier and signature of that signing
C2_Witness ==
  /\ ret.op = "Sign"
  /\ ret.err # "nil"
  /\ signed.done
  /\ evt.ID = signed.evt.ID
  /\ evt.Sig = signed.evt.Sig

\* CheckSignature has just run on an event signed with success whose signature
\* is still the one produced
CheckedWithSig ==
  /\ ret.op = "CheckSignature"
  /\ signed.done
  /\ evt.Sig = signed.evt.Sig

\* C3 as stated: after a successful Sign, a change of any signed field (author
\* key, createdAt, kind, tags, content) with the signature kept makes
\* CheckSignature return something other than (true, nil)
C3_AnyChangeDetected ==
  (CheckedWithSig /\ FieldsOf(evt) # FieldsOf(signed.evt)) => ~Valid

\* C3 amended: the same, for a change of the author key, of the whole Unix
\* second of createdAt, of the kind, of the tags or of the content
C3_TamperDetected ==
  (CheckedWithSig /\ WireOf(evt) # WireOf(signed.evt)) => ~Valid

\* a validly signed event whose kind, tags or content was changed and which
\* CheckSignature then rejects
C3_Witness ==
  /\ CheckedWithSig
  /\ AuthorIsSigner
  /\ evt.PubKey = signed.evt.PubKey
  /\ WireOf(evt) # WireOf(signed.evt)
  /\ ~Valid

\* C4: whenever CheckSignature returns (true, nil), the signature verifies
\* under the author key for the digest that is the raw bytes of the stored ID
C4_VerifiesStoredID ==
  (ret.op = "CheckSignature" /\ Valid) =>
    LET id == DecodeString(evt.ID)
        pk == ParsePublicKey(evt.PubKey)
        sig == DecodeString(evt.Sig)
    IN  ~id.err /\ ~pk.err /\ ~sig.err /\ VerifyEq(pk.key, id.bytes, sig.bytes)

\* the author key cannot be parsed, or the signature is not hex, or it does
\* not decode to exactly 64 bytes
Malformed(e) ==
  \/ ParsePublicKey(e.PubKey).err
  \/ DecodeString(e.Sig).err
  \/ Len(DecodeString(e.Sig).bytes) # SigSize

\* C6: CheckSignature on an event with an unparsable author key, a signature
\* that is not hex or a decoded signature of any length but 64 returns false
\* with an error
C6_MalformedIsError ==
  (ret.op = "CheckSignature" /\ Malformed(evt)) => (~ret.ok /\ ret.err # "nil")

\* the author key parses and the signature decodes to 63 bytes
C6_Witness ==
  /\ ret.op = "CheckSignature"
  /\ ~ParsePublicKey(evt.PubKey).err
  /\ ~DecodeString(evt.Sig).err
  /\ Len(DecodeString(evt.Sig).bytes) = SigSize - 1
  /\ ~ret.ok
  /\ ret.err = "siglen"

\* C7: when the random source fails, Sign returns an error and produces no
\* signature from the zeroed auxiliary bytes
C7_RandomnessFailureIsError ==
  (ret.op = "Sign" /\ ret.rand = "failed") => ret.err # "nil"

\* C8: Sign on an event whose author key cannot be parsed returns an error, so
\* no such event is ever signed
C8_SignRejectsBadAuthorKey ==
  (ret.op = "Sign" /\ ParsePublicKey(evt.PubKey).err) => ret.err # "nil"

\* C9: CheckSignature leaves every field of the event as it was, and a second
\* call on the unmodified event returns what the first returned
C9_CheckSignaturePure ==
  [][ret'.op = "CheckSignature" =>
       /\ evt' = evt
       /\ (ret.op = "CheckSignature" => ret' = ret)]_vars

\* CheckSignature has returned an error on an event that carries an identifier
C9_Witness ==
  /\ ret.op = "CheckSignature"
  /\ ret.err \in {"pubkey", "sighex", "siglen"}
  /\ evt.ID # NoStr

\* C10 as stated: events that differ in author key, createdAt, kind, tags or
\* content serialize differently, and ID and Sig do not enter the output
C10_InjectiveOnFields ==
  ret.op = "Serialize" =>
    \A p \in SerPairs : (p[2] = ret.val) <=> (p[1] = FieldsOf(evt))

\* C10 amended: events that differ in author key, in the whole Unix second of
\* createdAt, in kind, in tags or in content serialize differently, and the
\* sub-second part of createdAt, ID and Sig do not enter the output
C10_InjectiveOnWire ==
  ret.op = "Serialize" =>
    \A p \in SerPairs :
      (p[2] = ret.val) <=> (WireOf(Unsigned(p[1])) = WireOf(evt))

\* a serialized event that carries an identifier and a signature and whose
\* tag holds a quote and a comma
C10_Witness ==
  /\ ret.op = "Serialize"
  /\ evt.ID # NoStr
  /\ evt.Sig # NoStr
  /\ evt.Tags = << <<StrQ>> >>
  /\ \E p \in SerPairs : p[2] = ret.val

====
